---- MODULE Spec2Model ----
(***************************************************************************)
(* Cart / checkout consistency core of dynamodb-shop.                      *)
(*                                                                         *)
(* The table is modelled item by item, with the attribute names the code   *)
(* writes and reads (DynamoDB attribute names are case-sensitive).  Every  *)
(* storage call of a request is one atomic step; requests interleave at    *)
(* storage calls only (one worker per request, no in-process shared state).*)
(***************************************************************************)
EXTENDS Integers, Sequences, FiniteSets, TLC

\* ---------------------------------------------------------------- bounds
NumProcs == 3
MaxQty == 2
MaxVer == 2

\* ------------------------------------------------------ program constants
TwoRetries == 3 - 1
maxRetries == 3

Users == {"u1", "u2"}
\* The users whose requests change a cart line; the others only check out.
CartOpUsers == {"u1"}
\* Product ids in sort-key order (Query returns CART#<productId> ascending).
ProductSeq == <<"p1", "p2">>
Products == {ProductSeq[k] : k \in 1..Len(ProductSeq)}
Procs == 1..NumProcs
\* The products the catalogue and stock requests are about, and their inputs.
AdminProducts == {"p1"}
NewPrices == {1, 2}
UpdateRequests == {[Name |-> "A2", Price |-> 1]}

VARIABLES
  product,     \* PRODUCT#<id>/METADATA items: attribute name -> value
  cart,        \* USER#<u>: CART#<pid> -> cart record (a function on the stored pids)
  orders,      \* stored order headers (USER#<u>/ORDER#<id>)
  orderItems,  \* stored order lines (ORDER#<id>/ITEM#<pid>)
  inventoryLogs,   \* stored stock movement logs (PRODUCT#<id>/INVLOG#<time>)
  priceHistories,  \* stored price history items (PRODUCT#<id>/PRICE#<time>)
  pc,          \* position of each request worker
  loc,         \* locals of each request worker
  res          \* what the call returned ("none" while running)

vars == <<product, cart, orders, orderItems, inventoryLogs, priceHistories, pc, loc, res>>
store == <<product, cart, orders, orderItems, inventoryLogs, priceHistories>>

\* ------------------------------------------------------------ the table

\* productRecord: the attribute names ProductRepository writes and reads.
ProductStockAttr == "stock"
ProductPriceAttr == "price"
ProductNameAttr == "name"

\* ProductRepository.Create: the item PutItem stores for a new product.
ProductItem(name, stock, price) ==
  (ProductNameAttr :> name) @@ (ProductStockAttr :> stock) @@ (ProductPriceAttr :> price)

HasAttr(item, a) == a \in DOMAIN item

\* ProductRepository.GetByID + recordToProduct: the product as the services see it.
GetProduct(pid) ==
  [Name |-> product[pid][ProductNameAttr],
   Stock |-> product[pid][ProductStockAttr], Price |-> product[pid][ProductPriceAttr]]

\* cartRecord as stored by CartRepository.Add (version 1 on creation).
CartRecordNew(name, price, quantity) ==
  [name |-> name, price |-> price, quantity |-> quantity, version |-> 1]

\* CartRepository.GetItem: found or ErrCartItemNotFound.
CartHas(u, pid) == pid \in DOMAIN cart[u]

\* CartRepository.GetByUserID: the user's cart lines in sort-key order.
RECURSIVE CartLinesFrom(_, _)
CartLinesFrom(u, k) ==
  IF k > Len(ProductSeq) THEN <<>>
  ELSE LET pid == ProductSeq[k] IN
       (IF CartHas(u, pid)
          THEN <<[ProductID |-> pid, ProductName |-> cart[u][pid].name,
                  Price |-> cart[u][pid].price,
                  Quantity |-> cart[u][pid].quantity, Version |-> cart[u][pid].version]>>
          ELSE <<>>) \o CartLinesFrom(u, k + 1)
GetByUserID(u) == CartLinesFrom(u, 1)

\* UpdateItem's ConditionExpression "version = :currentVer" (false on a missing item).
VersionMatches(u, pid, currentVersion) ==
  CartHas(u, pid) /\ cart[u][pid].version = currentVersion

\* UpdateItem "SET quantity = :qty, version = :newVer" with newVer = currentVersion + 1.
UpdatedCartMerged(u, pid, quantity, currentVersion) ==
  [cart EXCEPT ![u][pid].quantity = @ + quantity, ![u][pid].version = currentVersion + 1]
UpdatedCart(u, pid, quantity, currentVersion) ==
  [cart EXCEPT ![u][pid].quantity = quantity, ![u][pid].version = currentVersion + 1]

\* PutItem of a whole cart record (creates or overwrites).
PutCart(u, pid, rec) ==
  [cart EXCEPT ![u] = [x \in (DOMAIN cart[u]) \cup {pid} |-> IF x = pid THEN rec ELSE cart[u][x]]]

\* DeleteItem on a cart key (no condition: succeeds when absent).
DeleteCart(c, u, pid) ==
  [c EXCEPT ![u] = [x \in (DOMAIN c[u]) \ {pid} |-> c[u][x]]]

\* ------------------------------------------------------ request workers

NoItem == [found |-> FALSE, Quantity |-> 0, Version |-> 0]

LocIdle ==
  [op |-> "none", user |-> "none", pid |-> "none",
   reqQty |-> 0,        \* quantity of the request
   change |-> "none",   \* AdjustStock: changeType
   qty |-> 0,           \* updateQuantityWithRetry: quantity
   ver |-> 0,           \* updateQuantityWithRetry: currentVersion
   i |-> 0,             \* updateQuantityWithRetry: loop index
   att |-> 0,           \* conditional writes issued by the routine so far
   fails |-> 0,         \* of these, how many failed on a version mismatch
   stale |-> FALSE,     \* the first write presented a version older than the stored one
   rr |-> "none",       \* what updateQuantityWithRetry returned
   name |-> "none", stock |-> 0, price |-> 0,     \* product as read by GetByID
   existing |-> NoItem, \* AddItem: existingItem
   cartItems |-> <<>>,  \* CreateOrder: cartItems
   order |-> [TotalAmount |-> 0, ItemCount |-> 0],
   orderItems |-> <<>>,
   submits |-> 0,       \* TransactWriteItems requests the call has sent
   reasons |-> <<>>]    \* CancellationReasons of the cancelled transaction

\* A call returns: its locals go away.  What is kept of a finished call is its
\* kind and the outcome of its retry routine and of its transaction.
Returned(l) ==
  [LocIdle EXCEPT !.op = l.op, !.i = l.i, !.att = l.att, !.fails = l.fails,
                  !.stale = l.stale,
                  !.rr = l.rr, !.reasons = l.reasons, !.submits = l.submits,
                  !.user = IF l.op = "CreateOrder" THEN l.user ELSE "none",
                  !.cartItems = IF l.op = "CreateOrder" THEN l.cartItems ELSE <<>>]

\* Worker p takes the p-th request to arrive.
Arrives(p) == pc[p] = "idle" /\ \A q \in 1..(p - 1) : pc[q] # "idle"

Return(p, l, r) ==
  /\ pc' = [pc EXCEPT ![p] = "done"]
  /\ loc' = [loc EXCEPT ![p] = Returned(l)]
  /\ res' = [res EXCEPT ![p] = r]

Goto(p, l, label) ==
  /\ pc' = [pc EXCEPT ![p] = label]
  /\ loc' = [loc EXCEPT ![p] = l]
  /\ UNCHANGED res

\* ------------------------------------------------- CartService.AddItem

\* totalQuantity := req.Quantity (+ existingItem.Quantity when the line exists)
TotalQuantityReqOnly(reqQty, existing) == reqQty
TotalQuantity(reqQty, existing) ==
  IF existing.found THEN reqQty + existing.Quantity ELSE reqQty

\* product.Stock < totalQuantity
InsufficientStockOffByOne(stock, totalQuantity) == stock + 1 < totalQuantity
InsufficientStock(stock, totalQuantity) == stock < totalQuantity

\* req.Quantity <= 0
AddQuantityInvalidNegOnly(q) == q < 0
AddQuantityInvalid(q) == q <= 0

\* Entry: the quantity check comes before any storage access.
AddItem(p, u, pid, q) ==
  /\ Arrives(p)
  /\ IF AddQuantityInvalid(q)
       THEN Return(p, [LocIdle EXCEPT !.op = "AddItem"], "ErrInvalidQuantity")
       ELSE Goto(p, [LocIdle EXCEPT !.op = "AddItem", !.user = u, !.pid = pid, !.reqQty = q],
                 "add_getProduct")
  /\ UNCHANGED store

\* productRepo.GetByID
AddGetProduct(p) ==
  /\ pc[p] = "add_getProduct"
  /\ Goto(p, [loc[p] EXCEPT !.name = GetProduct(loc[p].pid).Name,
                            !.stock = GetProduct(loc[p].pid).Stock,
                            !.price = GetProduct(loc[p].pid).Price], "add_getItem")
  /\ UNCHANGED store

\* cartRepo.GetItem, then the advisory stock check and the choice of the write.
AddGetItem(p) ==
  /\ pc[p] = "add_getItem"
  /\ LET u == loc[p].user
         pid == loc[p].pid
         existing == IF CartHas(u, pid)
                       THEN [found |-> TRUE, Quantity |-> cart[u][pid].quantity,
                             Version |-> cart[u][pid].version]
                       ELSE NoItem
         total == TotalQuantity(loc[p].reqQty, existing)
         l == [loc[p] EXCEPT !.existing = existing,
                             !.qty = IF existing.found THEN total ELSE 0,
                             !.ver = existing.Version]
     IN IF InsufficientStock(loc[p].stock, total) THEN Return(p, l, "ErrInsufficientStock")
        ELSE IF existing.found THEN Goto(p, l, "upd_write")
        ELSE Goto(p, l, "add_put")
  /\ UNCHANGED store

\* cartRepo.Add: PutItem without a condition, version 1, price of the product read.
AddPutReserving(p) ==
  /\ pc[p] = "add_put"
  /\ cart' = PutCart(loc[p].user, loc[p].pid,
                     CartRecordNew(loc[p].name, loc[p].price, loc[p].reqQty))
  /\ product' = [product EXCEPT ![loc[p].pid][ProductStockAttr] = @ - loc[p].reqQty]
  /\ Return(p, loc[p], "OK")
  /\ UNCHANGED <<orders, orderItems, inventoryLogs, priceHistories>>
AddPut(p) ==
  /\ pc[p] = "add_put"
  /\ cart' = PutCart(loc[p].user, loc[p].pid, CartRecordNew(loc[p].name, loc[p].price, loc[p].reqQty))
  /\ Return(p, loc[p], "OK")
  /\ UNCHANGED <<product, orders, orderItems, inventoryLogs, priceHistories>>

\* --------------------------------------------- CartService.UpdateQuantity

\* req.Quantity <= 0
UpdQuantityInvalidNegOnly(q) == q < 0
UpdQuantityInvalid(q) == q <= 0

\* Entry: the quantity check comes before any storage access.
UpdateQuantity(p, u, pid, q, v) ==
  /\ Arrives(p)
  /\ IF UpdQuantityInvalid(q)
       THEN Return(p, [LocIdle EXCEPT !.op = "UpdateQuantity"], "ErrInvalidQuantity")
       ELSE Goto(p, [LocIdle EXCEPT !.op = "UpdateQuantity", !.user = u, !.pid = pid,
                                    !.reqQty = q, !.qty = q, !.ver = v], "uq_getProduct")
  /\ UNCHANGED store

\* productRepo.GetByID and the stock check
UqGetProduct(p) ==
  /\ pc[p] = "uq_getProduct"
  /\ LET l == [loc[p] EXCEPT !.stock = GetProduct(loc[p].pid).Stock,
                             !.price = GetProduct(loc[p].pid).Price]
     IN IF l.stock < loc[p].reqQty
          THEN Return(p, l, "ErrInsufficientStock")
          ELSE Goto(p, l, "upd_write")
  /\ UNCHANGED store

\* ------------------------------------- CartService.updateQuantityWithRetry

\* One loop iteration's cartRepo.UpdateQuantity (conditional UpdateItem).
UpdWrite(p) ==
  /\ pc[p] = "upd_write"
  /\ LET u == loc[p].user
         pid == loc[p].pid
     IN IF VersionMatches(u, pid, loc[p].ver)
          THEN /\ cart' = UpdatedCart(u, pid, loc[p].qty, loc[p].ver)
               /\ Goto(p, [loc[p] EXCEPT !.att = @ + 1, !.rr = "OK"], "upd_getItem")
          ELSE /\ cart' = cart
               /\ Goto(p, [loc[p] EXCEPT !.att = @ + 1, !.fails = @ + 1,
                                         !.stale = IF loc[p].att = 0
                                                     THEN CartHas(u, pid)
                                                          /\ cart[u][pid].version > loc[p].ver
                                                     ELSE @],
                       "upd_reread")
  /\ UNCHANGED <<product, orders, orderItems, inventoryLogs, priceHistories>>

\* cartRepo.GetItem on a missing item: ErrCartItemNotFound, which the routine
\* returns as it is.
RereadMissingAsExhausted == "ErrOptimisticLockRetry"
RereadMissing == "ErrCartItemNotFound"

\* After ErrVersionMismatch: cartRepo.GetItem, then the next iteration or the
\* loop's exit.
UpdReread(p) ==
  /\ pc[p] = "upd_reread"
  /\ LET u == loc[p].user
         pid == loc[p].pid
     IN IF ~CartHas(u, pid)
          THEN Return(p, [loc[p] EXCEPT !.rr = RereadMissing], RereadMissing)
          ELSE LET l == [loc[p] EXCEPT !.ver = cart[u][pid].version, !.i = @ + 1]
               IN IF l.i < maxRetries
                    THEN Goto(p, l, "upd_write")
                    ELSE Return(p, [l EXCEPT !.rr = "ErrOptimisticLockRetry"],
                                "ErrOptimisticLockRetry")
  /\ UNCHANGED store

\* After the routine returned nil: cartRepo.GetItem for the line to return.
UpdGetItem(p) ==
  /\ pc[p] = "upd_getItem"
  /\ IF CartHas(loc[p].user, loc[p].pid)
       THEN Return(p, loc[p], "OK")
       ELSE Return(p, loc[p], "ErrCartItemNotFound")
  /\ UNCHANGED store

\* ---------------------------------------------- CartService.RemoveItem

\* DeleteItem has no ConditionExpression: deleting a missing item is no error.
DeleteResultIfExists(u, pid) == IF CartHas(u, pid) THEN "OK" ELSE "ErrCartItemNotFound"
DeleteResult(u, pid) == "OK"

\* cartRepo.Delete
RemoveItem(p, u, pid) ==
  /\ Arrives(p)
  /\ cart' = DeleteCart(cart, u, pid)
  /\ Return(p, [LocIdle EXCEPT !.op = "RemoveItem"], DeleteResult(u, pid))
  /\ UNCHANGED <<product, orders, orderItems, inventoryLogs, priceHistories>>

\* ----------------------------------------------- CartService.ClearCart

\* cartRepo.Clear: the Query; nothing to delete ends the call.
ClearCart(p, u) ==
  /\ Arrives(p)
  /\ LET items == GetByUserID(u)
         l == [LocIdle EXCEPT !.op = "ClearCart", !.user = u]
     IN IF Len(items) = 0
          THEN Return(p, l, "OK")
          ELSE Goto(p, [l EXCEPT !.cartItems = items], "cc_batch")
  /\ UNCHANGED store

RECURSIVE DeleteAll(_, _, _)
DeleteAll(c, u, pids) ==
  IF pids = {} THEN c
  ELSE LET pid == CHOOSE x \in pids : TRUE
       IN DeleteAll(DeleteCart(c, u, pid), u, pids \ {pid})

\* cartRepo.Clear: BatchWriteItem of one DeleteRequest per item read.  The
\* batch is not all-or-nothing: the store may leave requests unprocessed, and
\* the call does not look at UnprocessedItems.
ClearBatch(p) ==
  /\ pc[p] = "cc_batch"
  /\ LET keys == {loc[p].cartItems[k].ProductID : k \in 1..Len(loc[p].cartItems)}
     IN \E processed \in SUBSET keys :
          cart' = DeleteAll(cart, loc[p].user, processed)
  /\ Return(p, loc[p], "OK")
  /\ UNCHANGED <<product, orders, orderItems, inventoryLogs, priceHistories>>

\* ------------------------------------------- ProductRepository.Update

\* PutItem of the whole product record, on the condition attribute_exists(PK).
ProductRepoUpdate(pid, name, stock, price) ==
  [product EXCEPT ![pid] = ProductItem(name, stock, price)]

\* Reading the product into the call's locals (productRepo.GetByID).
ReadProduct(l, pid) ==
  [l EXCEPT !.pid = pid, !.name = GetProduct(pid).Name,
            !.stock = GetProduct(pid).Stock, !.price = GetProduct(pid).Price]

\* ------------------------------------------ InventoryService.AdjustStock

ChangeTypes == {"IN", "OUT", "ADJUST"}
\* inventoryLogRecord.Quantity: the movement quantity, a positive value.
AdjustQuantities == 1..MaxQty

\* newStock by changeType (OUT is clamped at 0, ADJUST sets the quantity).
NewStock(changeType, previousStock, quantity) ==
  IF changeType = "IN" THEN previousStock + quantity
  ELSE IF changeType = "OUT"
    THEN (IF previousStock - quantity < 0 THEN 0 ELSE previousStock - quantity)
  ELSE IF changeType = "ADJUST" THEN quantity
  ELSE previousStock

\* productRepo.GetByID
AdjustStock(p, pid, changeType, quantity) ==
  /\ Arrives(p)
  /\ Goto(p, ReadProduct([LocIdle EXCEPT !.op = "AdjustStock", !.change = changeType,
                                         !.reqQty = quantity], pid), "adj_log")
  /\ UNCHANGED store

\* inventoryRepo.Create of the movement log
AdjLog(p) ==
  /\ pc[p] = "adj_log"
  /\ inventoryLogs' = inventoryLogs \cup
       {[at |-> p, ProductID |-> loc[p].pid, ChangeType |-> loc[p].change,
         Quantity |-> loc[p].reqQty, PreviousStock |-> loc[p].stock,
         NewStock |-> NewStock(loc[p].change, loc[p].stock, loc[p].reqQty)]}
  /\ Goto(p, loc[p], "adj_update")
  /\ UNCHANGED <<product, cart, orders, orderItems, priceHistories>>

\* product.Stock = newStock; productRepo.Update(product)
AdjUpdate(p) ==
  /\ pc[p] = "adj_update"
  /\ product' = ProductRepoUpdate(loc[p].pid, loc[p].name,
                                  NewStock(loc[p].change, loc[p].stock, loc[p].reqQty),
                                  loc[p].price)
  /\ Return(p, loc[p], "OK")
  /\ UNCHANGED <<cart, orders, orderItems, inventoryLogs, priceHistories>>

\* ---------------------------------------- PriceHistoryService.UpdatePrice

\* productRepo.GetByID; an unchanged price ends the call.
UpdatePrice(p, pid, newPrice) ==
  /\ Arrives(p)
  /\ LET l == ReadProduct([LocIdle EXCEPT !.op = "UpdatePrice", !.reqQty = newPrice], pid)
     IN IF l.price = newPrice THEN Return(p, l, "OK") ELSE Goto(p, l, "up_history")
  /\ UNCHANGED store

\* priceHistoryRepo.Create
UpHistory(p) ==
  /\ pc[p] = "up_history"
  /\ priceHistories' = priceHistories \cup
       {[at |-> p, ProductID |-> loc[p].pid, Price |-> loc[p].reqQty]}
  /\ Goto(p, loc[p], "up_update")
  /\ UNCHANGED <<product, cart, orders, orderItems, inventoryLogs>>

\* product.Price = newPrice; productRepo.Update(product)
UpUpdate(p) ==
  /\ pc[p] = "up_update"
  /\ product' = ProductRepoUpdate(loc[p].pid, loc[p].name, loc[p].stock, loc[p].reqQty)
  /\ Return(p, loc[p], "OK")
  /\ UNCHANGED <<cart, orders, orderItems, inventoryLogs, priceHistories>>

\* --------------------------------------------- ProductService.Update

\* repo.GetByID, then the request's values replace name and price in memory.
ProductUpdate(p, pid, req) ==
  /\ Arrives(p)
  /\ Goto(p, [ReadProduct([LocIdle EXCEPT !.op = "ProductUpdate"], pid)
                EXCEPT !.name = req.Name, !.price = req.Price], "pu_update")
  /\ UNCHANGED store

\* repo.Update(product)
PuUpdate(p) ==
  /\ pc[p] = "pu_update"
  /\ product' = ProductRepoUpdate(loc[p].pid, loc[p].name, loc[p].stock, loc[p].price)
  /\ Return(p, loc[p], "OK")
  /\ UNCHANGED <<cart, orders, orderItems, inventoryLogs, priceHistories>>

\* ---------------------------------------------- OrderService.CreateOrder

\* subtotal := cartItem.Price * cartItem.Quantity
Subtotal(cartItem) == cartItem.Price * cartItem.Quantity

\* orderItems: one OrderItem per cart item, in the cart's order.
ToOrderItemsLive(cartItems) ==
  [k \in 1..Len(cartItems) |->
     [ProductID |-> cartItems[k].ProductID,
      ProductName |-> GetProduct(cartItems[k].ProductID).Name,
      Price |-> GetProduct(cartItems[k].ProductID).Price,
      Quantity |-> cartItems[k].Quantity,
      Subtotal |-> GetProduct(cartItems[k].ProductID).Price * cartItems[k].Quantity]]
ToOrderItems(cartItems) ==
  [k \in 1..Len(cartItems) |->
     [ProductID |-> cartItems[k].ProductID, ProductName |-> cartItems[k].ProductName,
      Price |-> cartItems[k].Price,
      Quantity |-> cartItems[k].Quantity, Subtotal |-> Subtotal(cartItems[k])]]

\* totalAmount += subtotal, over the cart items
RECURSIVE TotalAmountFrom(_, _)
TotalAmountFrom(cartItems, k) ==
  IF k > Len(cartItems) THEN 0
  ELSE Subtotal(cartItems[k]) + TotalAmountFrom(cartItems, k + 1)

RECURSIVE PriceSumFrom(_, _)
PriceSumFrom(cartItems, k) ==
  IF k > Len(cartItems) THEN 0
  ELSE cartItems[k].Price + PriceSumFrom(cartItems, k + 1)

\* order := &domain.Order{UserID, Status: CONFIRMED, TotalAmount, ItemCount}
BuildOrderPriceSum(u, cartItems) ==
  [UserID |-> u, Status |-> "CONFIRMED",
   TotalAmount |-> PriceSumFrom(cartItems, 1), ItemCount |-> Len(cartItems)]
BuildOrder(u, cartItems) ==
  [UserID |-> u, Status |-> "CONFIRMED",
   TotalAmount |-> TotalAmountFrom(cartItems, 1),
   ItemCount |-> Len(ToOrderItems(cartItems))]

\* ------------------------------------------- OrderRepository.CreateOrder

\* The attribute the checkout's Update tests and decrements.
CheckoutStockAttrLower == "stock"
CheckoutStockAttr == "Stock"

\* 1. Put of the order header
OrderPut(orderId, order) ==
  [op |-> "Put", tbl |-> "ORDER",
   rec |-> [OrderID |-> orderId, UserID |-> order.UserID, Status |-> "CONFIRMED",
            TotalAmount |-> order.TotalAmount, ItemCount |-> order.ItemCount]]

\* 2. Put of one order line (Subtotal recomputed from Price and Quantity)
OrderItemPut(orderId, item) ==
  [op |-> "Put", tbl |-> "ITEM",
   rec |-> [OrderID |-> orderId, ProductID |-> item.ProductID,
            ProductName |-> item.ProductName, Price |-> item.Price,
            Quantity |-> item.Quantity, Subtotal |-> item.Price * item.Quantity]]

\* 3. Update "SET Stock = Stock - :qty" with ConditionExpression "Stock >= :qty"
StockDecrementBlind(item) ==
  [op |-> "Update", tbl |-> "PRODUCT", pid |-> item.ProductID,
   attr |-> ProductStockAttr, qty |-> item.Quantity, guarded |-> FALSE]
StockDecrement(item) ==
  [op |-> "Update", tbl |-> "PRODUCT", pid |-> item.ProductID,
   attr |-> CheckoutStockAttr, qty |-> item.Quantity, guarded |-> TRUE]

\* 4. Delete of one cart item (no condition)
CartDelete(u, cartItem) ==
  [op |-> "Delete", tbl |-> "CART", user |-> u, pid |-> cartItem.ProductID]

\* transactionItems, in the order the repository appends them.
TransactionItems(orderId, order, items, cartItems) ==
  <<OrderPut(orderId, order)>>
    \o [k \in 1..Len(items) |-> OrderItemPut(orderId, items[k])]
    \o [k \in 1..Len(items) |-> StockDecrement(items[k])]
    \o [k \in 1..Len(cartItems) |-> CartDelete(order.UserID, cartItems[k])]

\* uuid.New(): one fresh id per call (a worker makes one call).
OrderIdOf(p) == p

TxOf(p) ==
  TransactionItems(OrderIdOf(p), loc[p].order, loc[p].orderItems, loc[p].cartItems)

\* --------------------------------------- the store's TransactWriteItems

Db == [product |-> product, cart |-> cart, orders |-> orders, orderItems |-> orderItems]

\* A ConditionExpression comparing a missing attribute is false.
ConditionHolds(db, t) ==
  IF t.op = "Update" /\ t.guarded
    THEN HasAttr(db.product[t.pid], t.attr) /\ db.product[t.pid][t.attr] >= t.qty
    ELSE TRUE

\* "SET a = a - :qty" needs the attribute a in the item.
ExpressionValid(db, t) ==
  IF t.op = "Update" THEN HasAttr(db.product[t.pid], t.attr) ELSE TRUE

ApplyItem(db, t) ==
  IF t.op = "Put" /\ t.tbl = "ORDER" THEN [db EXCEPT !.orders = @ \cup {t.rec}]
  ELSE IF t.op = "Put" /\ t.tbl = "ITEM" THEN [db EXCEPT !.orderItems = @ \cup {t.rec}]
  ELSE IF t.op = "Update"
    THEN [db EXCEPT !.product[t.pid][t.attr] = @ - t.qty]
  ELSE [db EXCEPT !.cart = DeleteCart(db.cart, t.user, t.pid)]

RECURSIVE ApplyFrom(_, _, _, _)
ApplyFrom(db, tx, reasons, k) ==
  IF k > Len(tx) THEN db
  ELSE ApplyFrom(IF reasons[k] = "None" THEN ApplyItem(db, tx[k]) ELSE db, tx, reasons, k + 1)

CommittedAny(reasons) == \E k \in 1..Len(reasons) : reasons[k] = "None"
Committed(reasons) == \A k \in 1..Len(reasons) : reasons[k] = "None"

\* All operations commit together or none do.
TransactWriteItemsPartial(db, tx, reasons) == ApplyFrom(db, tx, reasons, 1)
TransactWriteItems(db, tx, reasons) ==
  IF Committed(reasons) THEN ApplyFrom(db, tx, reasons, 1) ELSE db

\* Keys another request's transaction is holding while it is in flight.
InFlight(q) == pc[q] = "co_inflight"

SameKey(s, t) ==
  /\ s.tbl = t.tbl
  /\ \/ s.tbl = "PRODUCT" /\ s.pid = t.pid
     \/ s.tbl = "CART" /\ s.user = t.user /\ s.pid = t.pid

Conflicts(p, t) ==
  /\ t.tbl \in {"PRODUCT", "CART"}
  /\ \E q \in Procs \ {p} :
       /\ InFlight(q)
       /\ \E k \in 1..Len(TxOf(q)) : SameKey(TxOf(q)[k], t)

\* What the store may report for one item of the transaction.
PossibleReasons(p, t) ==
  (IF ~ConditionHolds(Db, t) THEN {"ConditionalCheckFailed"}
   ELSE IF ~ExpressionValid(Db, t) THEN {"ValidationError"}
   ELSE {"None"})
  \cup (IF Conflicts(p, t) THEN {"TransactionConflict"} ELSE {})

RECURSIVE ReasonVectors(_, _, _)
ReasonVectors(p, tx, k) ==
  IF k > Len(tx) THEN {<<>>}
  ELSE {<<r>> \o rest : r \in PossibleReasons(p, tx[k]), rest \in ReasonVectors(p, tx, k + 1)}

\* The repository's loop over tce.CancellationReasons: the first reason whose
\* code is one of the two decides; otherwise the error is returned as it is.
RECURSIVE ClassifyFrom(_, _)
ClassifyFrom(reasons, k) ==
  IF k > Len(reasons) THEN "StorageError"
  ELSE IF reasons[k] = "ConditionalCheckFailed" THEN "ErrInsufficientStock"
  ELSE IF reasons[k] = "TransactionConflict" THEN "ErrTransactionConflict"
  ELSE ClassifyFrom(reasons, k + 1)
Classify(reasons) == ClassifyFrom(reasons, 1)

\* len(cartItems) == 0
IsEmptyCartNever(cartItems) == FALSE
IsEmptyCart(cartItems) == Len(cartItems) = 0

\* Entry and cartRepo.GetByUserID; an empty cart ends the call, otherwise the
\* order and its lines are built in memory.
CreateOrder(p, u) ==
  /\ Arrives(p)
  /\ LET cartItems == GetByUserID(u)
         l == [LocIdle EXCEPT !.op = "CreateOrder", !.user = u]
     IN IF IsEmptyCart(cartItems)
          THEN Return(p, l, "ErrCartItemNotFound")
          ELSE Goto(p, [l EXCEPT !.cartItems = cartItems,
                                 !.orderItems = ToOrderItems(cartItems),
                                 !.order = BuildOrder(u, cartItems)], "co_submit")
  /\ UNCHANGED store

\* The TransactWriteItems request reaches the store.
CoSubmit(p) ==
  /\ pc[p] = "co_submit"
  /\ Goto(p, [loc[p] EXCEPT !.submits = @ + 1], "co_inflight")
  /\ UNCHANGED store

\* "return err": a failed transaction is handed to the caller, whatever the error.
ResubmitsOnConflict(err) == err = "ErrTransactionConflict"
ResubmitsOn(err) == FALSE

\* The store decides the transaction and the call returns: nil when it
\* committed, otherwise the error the cancellation reasons classify to.
CoResolve(p) ==
  /\ pc[p] = "co_inflight"
  /\ \E reasons \in ReasonVectors(p, TxOf(p), 1) :
       LET db == TransactWriteItems(Db, TxOf(p), reasons)
       IN /\ product' = db.product
          /\ cart' = db.cart
          /\ orders' = db.orders
          /\ orderItems' = db.orderItems
          /\ UNCHANGED <<inventoryLogs, priceHistories>>
          /\ IF ~Committed(reasons) /\ ResubmitsOn(Classify(reasons))
               THEN Goto(p, loc[p], "co_submit")
               ELSE Return(p, [loc[p] EXCEPT !.reasons = reasons],
                           IF Committed(reasons) THEN "OK" ELSE Classify(reasons))

\* TransactWriteItems fails with an error that is no cancellation (the request
\* is rejected before anything is written).
CoStorageError(p) ==
  /\ pc[p] = "co_inflight"
  /\ Return(p, loc[p], "StorageError")
  /\ UNCHANGED store

\* ------------------------------------------------------- specification

InitProduct ==
  [pid \in Products |-> IF pid = "p1" THEN ProductItem("A", 5, 2) ELSE ProductItem("B", 1, 3)]

EmptyCart == [x \in {} |-> 0]
Line(pid, quantity, version) ==
  [name |-> InitProduct[pid][ProductNameAttr], price |-> InitProduct[pid][ProductPriceAttr],
   quantity |-> quantity, version |-> version]

\* Tables the program reaches from an empty one by AddItem and UpdateQuantity.
InitCarts ==
  { [u \in Users |-> EmptyCart],
    [u \in Users |-> ("p1" :> Line("p1", 3, 1))],
    [u \in Users |-> IF u = "u1" THEN ("p1" :> Line("p1", 2, 2)) @@ ("p2" :> Line("p2", 1, 1))
                                 ELSE EmptyCart] }

Init ==
  /\ product = InitProduct
  /\ cart \in InitCarts
  /\ orders = {}
  /\ orderItems = {}
  /\ inventoryLogs = {}
  /\ priceHistories = {}
  /\ pc = [p \in Procs |-> "idle"]
  /\ loc = [p \in Procs |-> LocIdle]
  /\ res = [p \in Procs |-> "none"]

Next ==
  \E p \in Procs :
    \/ \E u \in CartOpUsers, pid \in Products, q \in 0..MaxQty : AddItem(p, u, pid, q)
    \/ AddGetProduct(p)
    \/ AddGetItem(p)
    \/ AddPut(p)
    \/ \E u \in CartOpUsers, pid \in Products, q \in 0..MaxQty, v \in 1..MaxVer :
         UpdateQuantity(p, u, pid, q, v)
    \/ UqGetProduct(p)
    \/ UpdWrite(p)
    \/ UpdReread(p)
    \/ UpdGetItem(p)
    \/ \E u \in CartOpUsers, pid \in Products : RemoveItem(p, u, pid)
    \/ \E u \in CartOpUsers : ClearCart(p, u)
    \/ ClearBatch(p)
    \/ \E pid \in AdminProducts, t \in ChangeTypes, q \in AdjustQuantities : AdjustStock(p, pid, t, q)
    \/ AdjLog(p)
    \/ AdjUpdate(p)
    \/ \E pid \in AdminProducts, newPrice \in NewPrices : UpdatePrice(p, pid, newPrice)
    \/ UpHistory(p)
    \/ UpUpdate(p)
    \/ \E pid \in AdminProducts, req \in UpdateRequests : ProductUpdate(p, pid, req)
    \/ PuUpdate(p)
    \/ \E u \in Users : CreateOrder(p, u)
    \/ CoSubmit(p)
    \/ CoResolve(p)
    \/ CoStorageError(p)

Spec == Init /\ [][Next]_vars

\* ------------------------------------------------------------ properties

IsCheckout(p) == loc[p].op = "CreateOrder"

ClassifiedErrors == {"ErrCartItemNotFound", "ErrInsufficientStock", "ErrTransactionConflict"}

\* C1: every step of a CreateOrder call that does not return nil -- its cart
\* read, the submission, and its return with EmptyCart (ErrCartItemNotFound in
\* the code), InsufficientStock or TransactionConflict -- leaves the carts, the
\* products, the orders and the order lines exactly as they were.
C1_FailedCheckoutChangesNothing ==
  [][\A p \in Procs :
       (/\ pc'[p] # pc[p]
        /\ loc'[p].op = "CreateOrder"
        /\ res'[p] \in ClassifiedErrors \cup {"none"})
       => store' = store]_vars

C1_Witness ==
  \E p \in Procs :
    /\ pc[p] = "done" /\ IsCheckout(p)
    /\ res[p] = "ErrInsufficientStock"
    /\ Len(loc[p].cartItems) = 2
    /\ GetByUserID(loc[p].user) = loc[p].cartItems
    /\ product = InitProduct /\ orders = {} /\ orderItems = {}

\* C3: every stock attribute of every product item is >= 0 in every reachable
\* state, whatever the interleaving of the checkouts.
C3_StockNeverNegative ==
  \A pid \in Products :
    \A a \in {ProductStockAttr, CheckoutStockAttr} \cap DOMAIN product[pid] :
      product[pid][a] >= 0

QtyOf(cartItems, pid) ==
  IF \E k \in 1..Len(cartItems) : cartItems[k].ProductID = pid
    THEN cartItems[CHOOSE k \in 1..Len(cartItems) : cartItems[k].ProductID = pid].Quantity
    ELSE 0

\* Two finished checkouts that together asked for more than the stock.
C3_Witness ==
  \E p, q \in Procs :
    /\ p # q /\ pc[p] = "done" /\ pc[q] = "done" /\ IsCheckout(p) /\ IsCheckout(q)
    /\ loc[p].reasons # <<>> /\ loc[q].reasons # <<>>
    /\ QtyOf(loc[p].cartItems, "p1") + QtyOf(loc[q].cartItems, "p1")
         > GetProduct("p1").Stock

\* C4: once two checkouts of different users, each for a cart holding exactly
\* quantity 3 of p1 (stock 5 when they started), have both returned, exactly
\* one returned nil, the other InsufficientStock or TransactionConflict, and
\* the stock products are read with is 2.
C4_OneOfTwoCheckoutsWins ==
  \A p, q \in Procs :
    (/\ p # q /\ pc[p] = "done" /\ pc[q] = "done" /\ IsCheckout(p) /\ IsCheckout(q)
     /\ loc[p].user # loc[q].user
     /\ InitProduct["p1"][ProductStockAttr] = 5
     /\ \A w \in {p, q} : /\ Len(loc[w].cartItems) = 1
                          /\ loc[w].cartItems[1].ProductID = "p1"
                          /\ loc[w].cartItems[1].Quantity = 3
     /\ \A w \in Procs \ {p, q} : pc[w] = "idle")
    => /\ \E w \in {p, q} :
            /\ res[w] = "OK"
            /\ \A x \in {p, q} \ {w} :
                 res[x] \in {"ErrInsufficientStock", "ErrTransactionConflict"}
       /\ GetProduct("p1").Stock = 2

VersionOrZero(c, u, pid) == IF pid \in DOMAIN c[u] THEN c[u][pid].version ELSE 0

\* C5: every step of an AddItem or UpdateQuantity call that writes a cart line
\* leaves its version exactly 1 above the version stored before the step (0
\* when there was no line), so no two writes start from the same version.
C5_EveryWriteRaisesVersionByOne ==
  [][\A p \in Procs : \A u \in Users : \A pid \in Products :
       (/\ pc[p] \in {"add_put", "upd_write"} /\ pc'[p] # pc[p]
        /\ loc[p].user = u /\ loc[p].pid = pid
        /\ pid \in DOMAIN cart'[u]
        /\ cart'[u] # cart[u])
       => cart'[u][pid].version = VersionOrZero(cart, u, pid) + 1]_vars

Routine(p) == loc[p].op \in {"AddItem", "UpdateQuantity"}

\* C7 as stated: at most 3 conditional writes per call; the routine returns
\* OptimisticLockExhausted exactly when 3 writes failed on a version mismatch,
\* and success exactly when a write's version matched.
C7_ExhaustedIffThreeMismatches ==
  \A p \in Procs :
    Routine(p) =>
      /\ loc[p].att <= 3
      /\ (loc[p].rr = "ErrOptimisticLockRetry")
           <=> (loc[p].fails = 3 /\ pc[p] # "upd_reread")
      /\ (loc[p].rr = "OK") <=> (loc[p].att = loc[p].fails + 1)

\* C7 amended: at most 3 conditional writes per call; the routine returns
\* OptimisticLockExhausted exactly when 3 writes failed on a version mismatch
\* and the re-read after each of them found the line (a re-read that finds no
\* line ends the call with ErrCartItemNotFound instead); it returns success at
\* the first write whose version matches.
C7_ExhaustedIffThreeMismatchesAndRereads ==
  /\ [](\A p \in Procs :
          Routine(p) =>
            /\ loc[p].att <= 3
            /\ (loc[p].rr = "ErrOptimisticLockRetry") <=> (loc[p].fails = 3 /\ loc[p].i = 3)
            /\ (loc[p].rr = "OK") <=> (loc[p].att = loc[p].fails + 1)
            /\ (loc[p].rr = "ErrCartItemNotFound")
                 => (loc[p].att = loc[p].fails /\ loc[p].i = loc[p].fails - 1))
  /\ [][\A p \in Procs :
          (pc[p] = "upd_write" /\ pc'[p] # pc[p])
          => (loc'[p].rr = "OK" <=> VersionMatches(loc[p].user, loc[p].pid, loc[p].ver))]_vars

C7_Witness ==
  \E p \in Procs :
    /\ Routine(p) /\ pc[p] = "done"
    /\ res[p] = "ErrOptimisticLockRetry" /\ loc[p].att = 3 /\ loc[p].fails = 3

\* C8: when an AddItem for a pair whose line it read as (q1, version v) writes
\* while the stored line is still (q1, v), the user's cart keeps the same set
\* of lines, and the pair's line holds q1 + q2 at version v + 1.
C8_AddItemMerges ==
  [][\A p \in Procs :
       LET u == loc[p].user
           pid == loc[p].pid
       IN (/\ loc[p].op = "AddItem" /\ pc[p] = "upd_write" /\ pc'[p] # pc[p]
           /\ CartHas(u, pid)
           /\ cart[u][pid].quantity = loc[p].existing.Quantity
           /\ cart[u][pid].version = loc[p].existing.Version
           /\ loc[p].att = 0)
          => /\ pc'[p] = "upd_getItem"
             /\ DOMAIN cart'[u] = DOMAIN cart[u]
             /\ cart'[u][pid].quantity = loc[p].existing.Quantity + loc[p].reqQty
             /\ cart'[u][pid].version = loc[p].existing.Version + 1
             /\ loc[p].stock >= loc[p].existing.Quantity + loc[p].reqQty]_vars

C8_Witness ==
  \E p \in Procs :
    LET u == loc[p].user
        pid == loc[p].pid
    IN /\ loc[p].op = "AddItem" /\ pc[p] = "upd_getItem" /\ loc[p].att = 1
       /\ cart[u][pid].quantity = loc[p].existing.Quantity + loc[p].reqQty
       /\ cart[u][pid].version = loc[p].existing.Version + 1
       /\ loc[p].existing.Quantity = 3 /\ loc[p].reqQty = 2

RECURSIVE SumSubtotals(_)
SumSubtotals(recs) ==
  IF recs = {} THEN 0
  ELSE LET r == CHOOSE x \in recs : TRUE IN r.Subtotal + SumSubtotals(recs \ {r})

LinesOfTx(tx) == {tx[k].rec : k \in {j \in 1..Len(tx) : tx[j].tbl = "ITEM"}}

\* C9: in the transaction a CreateOrder call has built, and in every stored
\* order, the subtotals of the order's lines sum to the header's totalAmount,
\* each subtotal is price x quantity of the cart line it was built from, and
\* itemCount is the number of lines.
C9_OrderTotals ==
  /\ \A p \in Procs :
       pc[p] \in {"co_submit", "co_inflight"} =>
         LET tx == TxOf(p)
             n == Len(loc[p].cartItems)
         IN /\ SumSubtotals(LinesOfTx(tx)) = tx[1].rec.TotalAmount
            /\ tx[1].rec.ItemCount = Cardinality(LinesOfTx(tx))
            /\ Cardinality(LinesOfTx(tx)) = n
            /\ \A k \in 1..n :
                 /\ tx[1 + k].rec.ProductID = loc[p].cartItems[k].ProductID
                 /\ tx[1 + k].rec.Subtotal
                      = loc[p].cartItems[k].Price * loc[p].cartItems[k].Quantity
                 /\ loc[p].orderItems[k].Subtotal = tx[1 + k].rec.Subtotal
  /\ \A o \in orders :
       LET lines == {r \in orderItems : r.OrderID = o.OrderID}
       IN SumSubtotals(lines) = o.TotalAmount /\ Cardinality(lines) = o.ItemCount

C9_Witness ==
  \E p \in Procs :
    /\ pc[p] = "co_inflight"
    /\ Len(loc[p].cartItems) = 2
    /\ TxOf(p)[1].rec.TotalAmount = 7
    /\ TxOf(p)[1].rec.ItemCount = 2

\* The reasons reported for the stock decrements of a finished checkout.
StockReasons(p) ==
  LET n == Len(loc[p].cartItems)
  IN {loc[p].reasons[1 + n + k] : k \in 1..n}

\* C10: a cancelled checkout returns InsufficientStock whenever the condition of
\* one of its stock decrements failed, whatever is reported for its other items;
\* otherwise TransactionConflict when an item conflicted; otherwise the
\* storage error.
C10_StockFailureTakesPrecedence ==
  \A p \in Procs :
    (pc[p] = "done" /\ IsCheckout(p) /\ loc[p].reasons # <<>> /\ res[p] # "OK")
    => LET all == {loc[p].reasons[k] : k \in 1..Len(loc[p].reasons)}
       IN IF "ConditionalCheckFailed" \in StockReasons(p)
            THEN res[p] = "ErrInsufficientStock"
          ELSE IF "TransactionConflict" \in all
            THEN res[p] = "ErrTransactionConflict"
          ELSE res[p] = "StorageError"

\* C11: a CreateOrder call that reads no cart line for its user returns
\* EmptyCart (ErrCartItemNotFound in the code) in that same step, without
\* building or submitting a transaction, and leaves the orders, the order
\* lines, the products and the carts as they were.
C11_EmptyCartCheckoutFails ==
  [][\A p \in Procs :
       (/\ pc[p] = "idle" /\ pc'[p] # pc[p]
        /\ loc'[p].op = "CreateOrder"
        /\ GetByUserID(loc'[p].user) = <<>>)
       => /\ pc'[p] = "done"
          /\ res'[p] = "ErrCartItemNotFound"
          /\ loc'[p].reasons = <<>>
          /\ store' = store]_vars

C11_Witness ==
  \E p \in Procs :
    /\ pc[p] = "done" /\ IsCheckout(p) /\ res[p] = "ErrCartItemNotFound"
    /\ GetByUserID(loc[p].user) = <<>>
    /\ orders = {} /\ orderItems = {}

\* C12: when an AddItem call has read a stock below its requested quantity
\* plus the quantity of the stored cart line (0 without a line), it returns
\* InsufficientStock, and no step of the call up to there creates or changes
\* a cart line or anything else stored.
C12_AddItemInsufficientStock ==
  [][\A p \in Procs :
       LET u == loc[p].user
           pid == loc[p].pid
           inCart == IF CartHas(u, pid) THEN cart[u][pid].quantity ELSE 0
       IN /\ (/\ loc[p].op = "AddItem" /\ pc[p] = "add_getItem" /\ pc'[p] # pc[p]
               /\ loc[p].stock < loc[p].reqQty + inCart)
              => (pc'[p] = "done" /\ res'[p] = "ErrInsufficientStock" /\ store' = store)
          /\ (/\ loc'[p].op = "AddItem" /\ pc'[p] # pc[p]
               /\ pc[p] \in {"idle", "add_getProduct", "add_getItem"})
              => store' = store]_vars

\* The only request the bounds allow on an empty table that can fail this way
\* is quantity 2 of p2, whose stock is 1.
C12_Witness ==
  \E p \in Procs :
    /\ pc[p] = "done" /\ loc[p].op = "AddItem" /\ res[p] = "ErrInsufficientStock"
    /\ \A q \in Procs \ {p} : pc[q] = "idle"
    /\ \A u \in Users : cart[u] = EmptyCart
    /\ product = InitProduct

StockWriters == {"adj_update", "up_update", "pu_update"}

\* C13: every step that changes the stored stock of a product is the
\* conditional update of a checkout transaction, or at least writes over the
\* very stock value its writer read (no write of a stock computed from an
\* earlier read over a stock that has changed since).
C13_NoBlindStockWrite ==
  [][\A pid \in Products :
       product'[pid][ProductStockAttr] # product[pid][ProductStockAttr]
       => \E p \in Procs :
            /\ pc'[p] # pc[p]
            /\ \/ pc[p] = "co_inflight"
               \/ /\ pc[p] \in StockWriters /\ loc[p].pid = pid
                  /\ loc[p].stock = product[pid][ProductStockAttr]]_vars

\* C14: every step that changes a stored cart line into another stored line
\* is a conditional update whose presented version equals the stored one.
C14_NoBlindVersionWrite ==
  [][\A u \in Users : \A pid \in Products :
       (/\ CartHas(u, pid) /\ pid \in DOMAIN cart'[u]
        /\ cart'[u][pid] # cart[u][pid])
       => \E p \in Procs :
            /\ pc[p] = "upd_write" /\ pc'[p] # pc[p]
            /\ loc[p].user = u /\ loc[p].pid = pid
            /\ loc[p].ver = cart[u][pid].version]_vars

\* C15: a CreateOrder call sends at most one transaction: whatever the store
\* answers, TransactionConflict included, the call returns in that step and
\* sends nothing again; the conditional write of the cart update is the only
\* storage call a request repeats, at most maxRetries times.
C15_CheckoutSubmitsOnce ==
  /\ [](\A p \in Procs :
          /\ loc[p].submits <= 1
          /\ (IsCheckout(p) /\ res[p] \in {"ErrInsufficientStock", "ErrTransactionConflict",
                                            "StorageError"})
               => loc[p].submits = 1
          /\ loc[p].att <= 3
          /\ ~Routine(p) => loc[p].att = 0)
  /\ [][\A p \in Procs :
          (pc[p] = "co_inflight" /\ pc'[p] # pc[p]) => pc'[p] = "done"]_vars

C15_Witness ==
  \E p \in Procs :
    /\ pc[p] = "done" /\ IsCheckout(p)
    /\ res[p] = "ErrTransactionConflict" /\ loc[p].submits = 1

\* The positions of a cart call at which its next step is a storage call.
CartStorageCalls ==
  {"add_getProduct", "add_getItem", "add_put", "uq_getProduct",
   "upd_write", "upd_reread", "upd_getItem"}

\* C16: an AddItem or UpdateQuantity call reaches a storage call only with a
\* quantity > 0; a call that returns InvalidQuantity does so in its first
\* step, having read no product and no cart line, and nothing stored changes.
C16_InvalidQuantityBeforeStorage ==
  /\ [](\A p \in Procs :
          /\ (Routine(p) /\ pc[p] \in CartStorageCalls) => loc[p].reqQty > 0
          /\ res[p] = "ErrInvalidQuantity"
               => /\ Routine(p) /\ loc[p].att = 0
                  /\ loc[p] = [LocIdle EXCEPT !.op = loc[p].op])
  /\ [][\A p \in Procs :
          res'[p] = "ErrInvalidQuantity" /\ res[p] # res'[p]
          => (pc[p] = "idle" /\ store' = store)]_vars

C16_Witness ==
  \E p, q \in Procs :
    /\ loc[p].op = "AddItem" /\ res[p] = "ErrInvalidQuantity"
    /\ loc[q].op = "UpdateQuantity" /\ res[q] = "ErrInvalidQuantity"
    /\ product = InitProduct

\* C17: every stored cart line has quantity > 0, and a user's cart holds one
\* line per product at most (the read of a cart returns no product twice).
C17_CartLinesPositiveAndUnique ==
  \A u \in Users :
    LET lines == GetByUserID(u)
    IN /\ \A pid \in DOMAIN cart[u] : cart[u][pid].quantity > 0
       /\ \A j, k \in 1..Len(lines) : lines[j].ProductID = lines[k].ProductID => j = k
       /\ Len(lines) = Cardinality(DOMAIN cart[u])

\* An UpdateQuantity has written a line after a ClearCart emptied the cart
\* and an AddItem created the line again.
C17_Witness ==
  \E p, q, r \in Procs :
    /\ loc[p].op = "ClearCart" /\ pc[p] = "done"
    /\ loc[q].op = "AddItem" /\ res[q] = "OK"
    /\ loc[r].op = "UpdateQuantity" /\ loc[r].rr = "OK"
    /\ \E u \in Users : \E pid \in DOMAIN cart[u] : cart[u][pid].version = 2

\* C18: (a) a cart line created by AddItem holds version 1 and the name and
\* the price the call read from the product, which it reads once; (b) a
\* conditional update of a line leaves its name and price alone; (c) the order
\* lines of a checkout's transaction copy product, name, price and quantity
\* from the cart lines the call read; (d) a step that changes a product's name
\* or price changes no cart line, no order and no order line.
C18_PriceAndNameAreSnapshots ==
  /\ [][\A p \in Procs :
          LET u == loc[p].user
              pid == loc[p].pid
          IN /\ (pc[p] = "add_getProduct" /\ pc'[p] # pc[p])
                 => (loc'[p].price = GetProduct(pid).Price /\ loc'[p].name = GetProduct(pid).Name)
             /\ (pc[p] = "add_getItem" /\ pc'[p] = "add_put")
                 => (loc'[p].price = loc[p].price /\ loc'[p].name = loc[p].name)
             /\ (pc[p] = "add_put" /\ pc'[p] # pc[p])
                 => cart'[u][pid] = [name |-> loc[p].name, price |-> loc[p].price,
                                     quantity |-> loc[p].reqQty, version |-> 1]
             /\ (pc[p] = "upd_write" /\ pc'[p] # pc[p] /\ CartHas(u, pid))
                 => (/\ cart'[u][pid].price = cart[u][pid].price
                     /\ cart'[u][pid].name = cart[u][pid].name)
             /\ (pc[p] = "idle" /\ pc'[p] = "co_submit")
                 => loc'[p].cartItems = GetByUserID(loc'[p].user)]_vars
  /\ [](\A p \in Procs :
          pc[p] \in {"co_submit", "co_inflight"} =>
            \A k \in 1..Len(loc[p].cartItems) :
              LET line == TxOf(p)[1 + k].rec
                  item == loc[p].cartItems[k]
              IN /\ line.ProductID = item.ProductID
                 /\ line.ProductName = item.ProductName
                 /\ line.Price = item.Price
                 /\ line.Quantity = item.Quantity)
  /\ [][(\E pid \in Products :
            \/ product'[pid][ProductPriceAttr] # product[pid][ProductPriceAttr]
            \/ product'[pid][ProductNameAttr] # product[pid][ProductNameAttr])
        => (cart' = cart /\ orders' = orders /\ orderItems' = orderItems)]_vars

\* A checkout in flight for a line whose price and name are no longer the
\* product's.
C18_Witness ==
  \E p \in Procs :
    /\ pc[p] = "co_inflight"
    /\ \E k \in 1..Len(loc[p].cartItems) :
         LET item == loc[p].cartItems[k]
         IN /\ item.Price # GetProduct(item.ProductID).Price
            /\ item.ProductName # GetProduct(item.ProductID).Name
            /\ TxOf(p)[1 + k].rec.Price = item.Price
            /\ cart[loc[p].user][item.ProductID].price = item.Price

CartOps == {"AddItem", "UpdateQuantity", "RemoveItem", "ClearCart"}

\* C19: no step of an AddItem, UpdateQuantity, RemoveItem or ClearCart call,
\* successful or not, changes a product item (its stock in particular).
C19_CartOpsLeaveStock ==
  [][\A p \in Procs :
       (pc'[p] # pc[p] /\ loc'[p].op \in CartOps) => product' = product]_vars

\* The three requests were cart operations, one failed on the stock check,
\* one wrote a line, one removed or cleared.
C19_Witness ==
  \E p, q, r \in Procs :
    /\ pc[p] = "done" /\ pc[q] = "done" /\ pc[r] = "done"
    /\ loc[p].op = "AddItem" /\ res[p] = "OK"
    /\ loc[q].op = "UpdateQuantity" /\ res[q] = "ErrInsufficientStock"
    /\ loc[r].op \in {"RemoveItem", "ClearCart"} /\ res[r] = "OK"
    /\ product = InitProduct

\* C20: a RemoveItem call returns success in its one step, whether the line
\* exists or not; the step removes the line of one (user, product) and
\* nothing else, and removing that line again changes nothing more.
C20_RemoveItemIdempotent ==
  /\ [][\A p \in Procs :
          (pc'[p] # pc[p] /\ loc'[p].op = "RemoveItem")
          => /\ pc'[p] = "done" /\ res'[p] = "OK"
             /\ \E u \in Users : \E pid \in Products :
                  /\ cart' = DeleteCart(cart, u, pid)
                  /\ pid \notin DOMAIN cart'[u]
                  /\ DeleteCart(cart', u, pid) = cart'
             /\ UNCHANGED <<product, orders, orderItems>>]_vars
  /\ [](\A u \in Users : \A pid \in Products :
          LET once == DeleteCart(cart, u, pid)
          IN /\ pid \notin DOMAIN once[u]
             /\ DeleteCart(once, u, pid) = once
             /\ \A v \in Users : \A x \in DOMAIN cart[v] :
                  (v # u \/ x # pid) => (x \in DOMAIN once[v] /\ once[v][x] = cart[v][x]))

\* Two RemoveItem calls have returned and nothing else has run: the line of
\* p1 is gone, the line of p2 is as it was, so both removed p1.
C20_Witness ==
  \E p, q \in Procs :
    /\ p # q
    /\ loc[p].op = "RemoveItem" /\ res[p] = "OK"
    /\ loc[q].op = "RemoveItem" /\ res[q] = "OK"
    /\ \A r \in Procs \ {p, q} : pc[r] = "idle"
    /\ DOMAIN cart["u1"] = {"p2"}

C23_CheckoutUsesTheProductStock ==
  \A p \in Procs :
    (/\ IsCheckout(p) /\ pc[p] = "done" /\ loc[p].reasons # <<>>
     /\ \A q \in Procs \ {p} : pc[q] = "idle"
     /\ \A k \in 1..Len(loc[p].cartItems) :
          loc[p].cartItems[k].Quantity
            <= InitProduct[loc[p].cartItems[k].ProductID][ProductStockAttr])
    => /\ res[p] = "OK"
       /\ \A k \in 1..Len(loc[p].cartItems) :
            GetProduct(loc[p].cartItems[k].ProductID).Stock
              = InitProduct[loc[p].cartItems[k].ProductID][ProductStockAttr]
                  - loc[p].cartItems[k].Quantity

\* C24: when an AddItem call that found no line writes its new line while
\* another AddItem call, which found no line either, has created the line in
\* between, the stored quantity becomes the sum of the two requested
\* quantities.
C24_ConcurrentAddsSum ==
  [][\A p \in Procs :
       LET u == loc[p].user
           pid == loc[p].pid
       IN (/\ pc[p] = "add_put" /\ pc'[p] # pc[p]
           /\ CartHas(u, pid)
           /\ \E q \in Procs \ {p} :
                loc[q].op = "AddItem" /\ res[q] = "OK" /\ loc[q].att = 0)
          => /\ DOMAIN cart'[u] = DOMAIN cart[u]
             /\ cart'[u][pid].quantity = cart[u][pid].quantity + loc[p].reqQty]_vars

\* C25: every conditional write of an AddItem call that commits, the first
\* one or a retry with a re-read version, leaves the line's quantity exactly
\* the requested quantity above the quantity stored just before the write.
C25_MergeAddsToStoredQuantity ==
  [][\A p \in Procs :
       LET u == loc[p].user
           pid == loc[p].pid
       IN (/\ loc[p].op = "AddItem" /\ pc[p] = "upd_write" /\ pc'[p] = "upd_getItem")
          => cart'[u][pid].quantity = cart[u][pid].quantity + loc[p].reqQty]_vars

CatalogueOps == {"ProductUpdate", "UpdatePrice"}

\* C26: no step of a ProductService.Update or PriceHistoryService.UpdatePrice
\* call changes the stored stock of a product, whatever has been written to
\* the product between the call's read and its write.
C26_CatalogueEditsLeaveStock ==
  [][\A p \in Procs :
       (pc'[p] # pc[p] /\ loc'[p].op \in CatalogueOps)
       => \A pid \in Products :
            product'[pid][ProductStockAttr] = product[pid][ProductStockAttr]]_vars

RECURSIVE SumQuantities(_)
SumQuantities(recs) ==
  IF recs = {} THEN 0
  ELSE LET r == CHOOSE x \in recs : TRUE IN r.Quantity + SumQuantities(recs \ {r})

OnlyCartAndCheckout ==
  \A p \in Procs : loc[p].op \in CartOps \cup {"CreateOrder", "none"}

\* C27: as long as only cart operations and CreateOrder calls have run, the
\* stock a product was created with equals its stored stock plus the
\* quantities of the stored order lines for it; a failed checkout stores no
\* order line and changes no stock.
C27_StockConservation ==
  OnlyCartAndCheckout =>
    \A pid \in Products :
      InitProduct[pid][ProductStockAttr]
        = GetProduct(pid).Stock
            + SumQuantities({r \in orderItems : r.ProductID = pid})

C27_Witness ==
  /\ OnlyCartAndCheckout
  /\ \E p, q \in Procs :
       /\ IsCheckout(p) /\ pc[p] = "done" /\ res[p] = "ErrInsufficientStock"
       /\ loc[q].op = "AddItem" /\ res[q] = "OK"
  /\ \A pid \in Products : GetProduct(pid).Stock = InitProduct[pid][ProductStockAttr]

\* The movement a log records: + quantity for IN, - quantity for OUT.
Delta(log) ==
  IF log.ChangeType = "IN" THEN log.Quantity
  ELSE IF log.ChangeType = "OUT" THEN 0 - log.Quantity
  ELSE 0

RECURSIVE SumDeltas(_)
SumDeltas(logs) ==
  IF logs = {} THEN 0
  ELSE LET l == CHOOSE x \in logs : TRUE IN Delta(l) + SumDeltas(logs \ {l})

\* C28: once nothing but AdjustStock calls of type IN or OUT on a product have
\* run and returned, none of them clamped at zero, the product's stock is the
\* stock it was created with plus every IN quantity minus every OUT quantity.
C28_AdjustmentsAddUp ==
  \A pid \in AdminProducts :
    (/\ \A p \in Procs : pc[p] = "idle" \/ (pc[p] = "done" /\ loc[p].op = "AdjustStock")
     /\ \A l \in inventoryLogs :
          /\ l.ProductID = pid
          /\ l.ChangeType \in {"IN", "OUT"}
          /\ l.NewStock = l.PreviousStock + Delta(l))
    => GetProduct(pid).Stock = InitProduct[pid][ProductStockAttr] + SumDeltas(inventoryLogs)

\* C29: when an UpdateQuantity call whose conditional write has committed
\* reads the line back to return it, it returns without error a line whose
\* quantity is the requested one and whose version is one above the version
\* the committed write presented.
C29_CommittedUpdateReturnsItsLine ==
  [][\A p \in Procs :
       LET u == loc[p].user
           pid == loc[p].pid
       IN (/\ loc[p].op = "UpdateQuantity" /\ pc[p] = "upd_getItem" /\ pc'[p] # pc[p])
          => /\ res'[p] = "OK"
             /\ CartHas(u, pid)
             /\ cart[u][pid].quantity = loc[p].reqQty
             /\ cart[u][pid].version = loc[p].ver + 1]_vars

\* C30: a conditional write of an UpdateQuantity call on a pair without a
\* line fails and creates nothing; a re-read that finds no line, after
\* whichever attempt, ends the call with ErrCartItemNotFound and leaves the
\* pair without a line; no step of the call adds a line to a cart.
C30_UpdateQuantityNeverCreates ==
  /\ [][\A p \in Procs :
          LET u == loc[p].user
              pid == loc[p].pid
          IN /\ (/\ loc[p].op = "UpdateQuantity" /\ pc[p] = "upd_write" /\ pc'[p] # pc[p]
                  /\ ~CartHas(u, pid))
                 => (pc'[p] = "upd_reread" /\ cart' = cart)
             /\ (/\ loc[p].op = "UpdateQuantity" /\ pc[p] = "upd_reread" /\ pc'[p] # pc[p]
                  /\ ~CartHas(u, pid))
                 => (/\ pc'[p] = "done" /\ res'[p] = "ErrCartItemNotFound"
                     /\ cart' = cart /\ pid \notin DOMAIN cart'[u])
             /\ (pc'[p] # pc[p] /\ loc'[p].op = "UpdateQuantity")
                 => \A v \in Users : DOMAIN cart'[v] \subseteq DOMAIN cart[v]]_vars
  /\ [](\A p \in Procs :
          (loc[p].op = "UpdateQuantity" /\ res[p] = "ErrOptimisticLockRetry")
          => loc[p].i = 3)

\* The call found no line at its write and none at its re-read; and a call
\* whose line was removed before the re-read after its third attempt.
C30_Witness ==
  /\ \E p \in Procs :
       /\ loc[p].op = "UpdateQuantity" /\ res[p] = "ErrCartItemNotFound"
       /\ loc[p].fails = 1 /\ loc[p].att = 1
       /\ \A q \in Procs \ {p} : pc[q] = "idle"
       /\ \A u \in Users : cart[u] = EmptyCart

====
